---- MODULE Spec2Model ----
(***************************************************************************)
(* The transform step of the newspaper ETL pipeline                        *)
(* (final_project_live/transform/main.py): main(filename) reads a CSV of   *)
(* scraped articles into a table and threads it through a fixed list of    *)
(* statements; an exception raised by any of them leaves main.             *)
(*                                                                         *)
(* Text is a sequence of one-character strings.  A missing value (pandas'  *)
(* NaN, which read_csv produces for an empty field) is the text NaN, and   *)
(* NaNCount in a numeric column.                                           *)
(***************************************************************************)
EXTENDS Integers, Sequences, FiniteSets, TLC

\* Bounds of the model: the rows of the input file, and the invocations of
\* main on that file.
MaxRows == 3
MaxRuns == 2

VARIABLES
    csv,        \* the rows of the input file <filename>
    run,        \* the number of the current invocation of main
    pc,         \* the statement of main about to run, "done" or "failed"
    df,         \* main's local table
    returned,   \* <<table>> once main has returned it, <<>> before
    saved,      \* <<table>> once clean_<filename> is written, <<>> before
    failedAt,   \* the statement that raised, "" when none has
    error,      \* the exception it raised
    log,        \* history: the statements this invocation has entered
    derived,    \* history: the table as _tokenize_body left it
    prev        \* history: the outcome of the previous invocation

vars == <<csv, run, pc, df, returned, saved, failedAt, error, log, derived, prev>>

NaN == <<"NaN">>
NaNCount == 0 - 1

----------------------------------------------------------------------------
(* Text helpers: the str / re / urllib operations the statements use.      *)

Letters == {"s", "n", "a", "b", "B"}
SchemeChars == Letters \cup {"-"}
NetlocDelims == {"/", "?", "#"}
Whitespace == {" ", "\n"}

\* The characters of the model's urls, in a fixed order: the position of a
\* character is the value of its byte in url.encode().
Alphabet == <<"s", ":", "/", "n", "a", "b", "-">>

MinOf(S) == CHOOSE x \in S : \A y \in S : x <= y
MaxOf(S) == CHOOSE x \in S : \A y \in S : x >= y

\* str.find over a set of characters: the least index >= from, 0 when none.
Find(s, chars, from) ==
    LET I == {i \in from..Len(s) : s[i] \in chars}
    IN  IF I = {} THEN 0 ELSE MinOf(I)

\* str.split(sep) for a one-character separator.
RECURSIVE str_split(_, _)
str_split(s, sep) ==
    LET i == Find(s, {sep}, 1)
    IN  IF i = 0 THEN <<s>>
        ELSE <<SubSeq(s, 1, i - 1)>> \o str_split(SubSeq(s, i + 1, Len(s)), sep)

\* sep.join(parts)
RECURSIVE str_join(_, _)
str_join(parts, sep) ==
    IF Len(parts) = 0 THEN <<>>
    ELSE IF Len(parts) = 1 THEN parts[1]
    ELSE parts[1] \o <<sep>> \o str_join(Tail(parts), sep)

\* letter.replace('\n', ' ') mapped over the letters of a text and joined.
replace_new_lines(body) ==
    [i \in 1..Len(body) |-> IF body[i] = "\n" THEN " " ELSE body[i]]

\* urlparse(url).netloc: an optional scheme up to the first ':', then, after
\* '//', the text up to the next '/', '?' or '#'.
urlparse_netloc(url) ==
    LET i == Find(url, {":"}, 1)
        hasScheme == /\ i > 1
                     /\ url[1] \in Letters
                     /\ \A k \in 1..(i - 1) : url[k] \in SchemeChars
        rest == IF hasScheme THEN SubSeq(url, i + 1, Len(url)) ELSE url
    IN  IF Len(rest) >= 2 /\ rest[1] = "/" /\ rest[2] = "/"
        THEN LET d == Find(rest, NetlocDelims, 3)
             IN  SubSeq(rest, 3, IF d = 0 THEN Len(rest) ELSE d - 1)
        ELSE <<>>

\* Series.str.extract(r'(?P<missing_titles>[^/]+)$'): the longest non-empty
\* suffix without '/', NaN when the text ends with '/' (no match) or is NaN.
str_extract(url) ==
    IF url = NaN THEN NaN
    ELSE LET S == {i \in 1..Len(url) : url[i] = "/"}
             j == IF S = {} THEN 0 ELSE MaxOf(S)
         IN  IF j = Len(url) THEN NaN ELSE SubSeq(url, j + 1, Len(url))

\* hashlib.md5(bytes).hexdigest(): a digest computed from the bytes alone.
\* The 128-bit digest is modelled by a positional code of the bytes, which
\* like MD5 on the texts of the model has no collision.
ByteOf(c) == CHOOSE i \in 1..Len(Alphabet) : Alphabet[i] = c

\* Mutant: a digest seeded per process, as Python's built-in hash() is.
RECURSIVE md5_seeded(_)
md5_seeded(bytes) ==
    IF Len(bytes) = 0 THEN run
    ELSE ByteOf(bytes[1]) + (Len(Alphabet) + 1) * md5_seeded(Tail(bytes))

RECURSIVE md5_hexdigest(_)
md5_hexdigest(bytes) ==
    IF Len(bytes) = 0 THEN 0
    ELSE ByteOf(bytes[1]) + (Len(Alphabet) + 1) * md5_hexdigest(Tail(bytes))

\* nltk.word_tokenize on texts of letters and white space: the maximal runs of
\* characters that are not white space.
RECURSIVE word_tokenize(_)
word_tokenize(text) ==
    LET i == Find(text, Whitespace, 1)
    IN  IF Len(text) = 0 THEN <<>>
        ELSE IF i = 0 THEN <<text>>
        ELSE IF i = 1 THEN word_tokenize(Tail(text))
        ELSE <<SubSeq(text, 1, i - 1)>> \o word_tokenize(SubSeq(text, i + 1, Len(text)))

isalpha(token) == Len(token) > 0 /\ \A i \in 1..Len(token) : token[i] \in Letters
lower(token) == [i \in 1..Len(token) |-> IF token[i] = "B" THEN "b" ELSE token[i]]

\* stopwords.words('spanish'), restricted to the words the model's alphabet
\* can spell.
stop_words == {<<"a">>}

\* The chain of _tokenize_column applied to one text: tokenize, keep the
\* alphabetic tokens, lowercase, drop the stop words, count.
count_tokens(text) ==
    LET tokens == word_tokenize(text)
        alpha == SelectSeq(tokens, isalpha)
        lowered == [i \in 1..Len(alpha) |-> lower(alpha[i])]
        NotStop(w) == w \notin stop_words
    IN  Len(SelectSeq(lowered, NotStop))

----------------------------------------------------------------------------
(* Tables.  A table is [columns, index, rows]: the names of its columns,   *)
(* the field that labels its rows ("pos": the RangeIndex read_csv gives,   *)
(* "uid" after set_index('uid')), and its rows in order.  A row carries    *)
(* every field; a field that is not yet a column holds its default.  pos   *)
(* is the row's position in the input file.                                *)

CountColumns == {"n_tokens_title", "n_tokens_body"}

\* Series.isna / DataFrame.isna on one cell.
isna(row, c) == IF c \in CountColumns THEN row[c] = NaNCount ELSE row[c] = NaN

HasMissing(t, row) == \E c \in t.columns : isna(row, c)

Label(t, row) == IF t.index = "uid" THEN row.uid ELSE row.pos

EmptyTable == [columns |-> {}, index |-> "pos", rows |-> <<>>]

Ok(t) == [ok |-> TRUE, df |-> t, error |-> ""]
Raise(t, e) == [ok |-> FALSE, df |-> t, error |-> e]

\* DataFrame.dropna(): the rows without a missing value in any column.
dropna(t) ==
    LET Full(row) == ~HasMissing(t, row)
    IN  [t EXCEPT !.rows = SelectSeq(t.rows, Full)]

\* df[c] = series, for a series given as its <<label, value>> entries.  An
\* index equal to the table's sets by position; otherwise the series is
\* reindexed to the table's labels, which raises when the series' own labels
\* repeat and leaves missing a row whose label the series lacks.
setitem(t, c, series) ==
    LET n == Len(t.rows)
        sameIndex == /\ Len(series) = n
                     /\ \A i \in 1..n : series[i].label = Label(t, t.rows[i])
        unique == \A i, j \in 1..Len(series) : series[i].label = series[j].label => i = j
        At(row) ==
            LET I == {i \in 1..Len(series) : series[i].label = Label(t, row)}
            IN  IF I = {} THEN NaNCount ELSE series[MinOf(I)].value
        cols == t.columns \cup {c}
    IN  IF sameIndex
        THEN Ok([columns |-> cols, index |-> t.index,
                 rows |-> [i \in 1..n |-> [t.rows[i] EXCEPT ![c] = series[i].value]]])
        ELSE IF ~unique THEN Raise(t, "ValueError")
        ELSE Ok([columns |-> cols, index |-> t.index,
                 rows |-> [i \in 1..n |-> [t.rows[i] EXCEPT ![c] = At(t.rows[i])]]])

----------------------------------------------------------------------------
(* The functions main calls, each from a table to Ok(table) or Raise.      *)

\* The input file's name: <newspaper uid>_<rest>.
Filename == <<"n", "_", "s">>

_read_data(file) ==
    [columns |-> {"url", "title", "body", "extra"},
     index |-> "pos",
     rows |-> [i \in 1..Len(file) |->
                 [pos |-> i, url |-> file[i].url, title |-> file[i].title,
                  body |-> file[i].body, extra |-> file[i].extra,
                  newspaper_uid |-> NaN, host |-> NaN, uid |-> 0,
                  n_tokens_title |-> NaNCount, n_tokens_body |-> NaNCount]]]

_extract_newspaper_uid(filename) == str_split(filename, "_")[1]

_add_newspaper_uid_column(t, newspaper_uid) ==
    Ok([t EXCEPT !.columns = @ \cup {"newspaper_uid"},
                 !.rows = [i \in 1..Len(t.rows) |-> [t.rows[i] EXCEPT !.newspaper_uid = newspaper_uid]]])

\* urlparse of a missing url (a float) raises AttributeError.
_extract_host(t) ==
    IF \E i \in 1..Len(t.rows) : t.rows[i].url = NaN
    THEN Raise(t, "AttributeError")
    ELSE Ok([t EXCEPT !.columns = @ \cup {"host"},
                      !.rows = [i \in 1..Len(t.rows) |->
                                   [t.rows[i] EXCEPT !.host = urlparse_netloc(t.rows[i].url)]]])

\* applymap(lambda title: title.split('-')) raises AttributeError on the NaN
\* that str.extract leaves for a url without a final segment.
_fill_missing_titles(t) ==
    LET Mask(row) == row.title = NaN
        F(row) == IF Mask(row)
                  THEN [row EXCEPT !.title = str_join(str_split(str_extract(row.url), "-"), " ")]
                  ELSE row
    IN  IF \E i \in 1..Len(t.rows) : Mask(t.rows[i]) /\ str_extract(t.rows[i].url) = NaN
        THEN Raise(t, "AttributeError")
        ELSE Ok([t EXCEPT !.rows = [i \in 1..Len(t.rows) |-> F(t.rows[i])]])

_generate_uids_for_rows(t) ==
    IF \E i \in 1..Len(t.rows) : t.rows[i].url = NaN
    THEN Raise(t, "AttributeError")
    ELSE Ok([t EXCEPT !.index = "uid",
                      !.rows = [i \in 1..Len(t.rows) |->
                                   [t.rows[i] EXCEPT !.uid = md5_hexdigest(t.rows[i].url)]]])

\* list(body) raises TypeError on a missing body (a float).
_remove_new_lines_from_body(t) ==
    IF \E i \in 1..Len(t.rows) : t.rows[i].body = NaN
    THEN Raise(t, "TypeError")
    ELSE Ok([t EXCEPT !.rows = [i \in 1..Len(t.rows) |->
                                   [t.rows[i] EXCEPT !.body = replace_new_lines(t.rows[i].body)]]])

\* The series, over the rows of t without a missing value, of the token count
\* of column_name.
_tokenize_column(t, column_name) ==
    LET kept == dropna(t)
    IN  [i \in 1..Len(kept.rows) |->
            [label |-> Label(kept, kept.rows[i]),
             value |-> count_tokens(kept.rows[i][column_name])]]

_tokenize_title(t) == setitem(t, "n_tokens_title", _tokenize_column(t, "title"))

_tokenize_body(t) == setitem(t, "n_tokens_body", _tokenize_column(t, "body"))

\* Mutant: drop_duplicates(keep=False), which drops every row of a repeated
\* value.
drop_duplicates_keep_none(t, column_name) ==
    LET Single(i) == \A j \in 1..Len(t.rows) :
                         t.rows[j][column_name] = t.rows[i][column_name] => j = i
        I == {i \in 1..Len(t.rows) : Single(i)}
        Pick(row) == \E i \in I : t.rows[i] = row
    IN  Ok([t EXCEPT !.rows = SelectSeq(t.rows, Pick)])

\* Mutant: drop_duplicates without inplace=True, its result discarded.
drop_duplicates_discarded(t, column_name) == Ok(t)

\* drop_duplicates(subset=[column_name], keep='first', inplace=True): a row
\* stays when no row before it has its value.
_remove_duplicate_entries(t, column_name) ==
    LET First(i) == \A j \in 1..(i - 1) : t.rows[j][column_name] # t.rows[i][column_name]
        I == {i \in 1..Len(t.rows) : First(i)}
        Pick(row) == \E i \in I : t.rows[i] = row
    IN  Ok([t EXCEPT !.rows = SelectSeq(t.rows, Pick)])

\* Mutant: dropna() called for its effect, its result discarded.
dropna_discarded(t) == Ok(t)

_drop_rows_with_missing_values(t) == Ok(dropna(t))

----------------------------------------------------------------------------
(* main: the statements in the order main runs them.                       *)

\* Mutant: the table is saved before the body is normalized.
Statements_save_early ==
    <<"_read_data", "_add_newspaper_uid_column", "_extract_host",
      "_fill_missing_titles", "_generate_uids_for_rows", "_save_data",
      "_remove_new_lines_from_body", "_tokenize_title", "_tokenize_body",
      "_remove_duplicate_entries", "_drop_rows_with_missing_values", "return">>

\* Mutant: the duplicates are dropped before the missing titles are filled.
Statements_dedup_before_repair ==
    <<"_read_data", "_add_newspaper_uid_column", "_extract_host",
      "_remove_duplicate_entries", "_fill_missing_titles",
      "_generate_uids_for_rows", "_remove_new_lines_from_body",
      "_tokenize_title", "_tokenize_body", "_drop_rows_with_missing_values",
      "_save_data", "return">>

\* Mutant: the incomplete rows are dropped before the duplicates are.
Statements_drop_first ==
    <<"_read_data", "_add_newspaper_uid_column", "_extract_host",
      "_fill_missing_titles", "_generate_uids_for_rows",
      "_remove_new_lines_from_body", "_tokenize_title", "_tokenize_body",
      "_drop_rows_with_missing_values", "_remove_duplicate_entries",
      "_save_data", "return">>

Statements ==
    <<"_read_data", "_add_newspaper_uid_column", "_extract_host",
      "_fill_missing_titles", "_generate_uids_for_rows",
      "_remove_new_lines_from_body", "_tokenize_title", "_tokenize_body",
      "_remove_duplicate_entries", "_drop_rows_with_missing_values",
      "_save_data", "return">>

NextStatement(stmt) ==
    LET i == CHOOSE k \in 1..Len(Statements) : Statements[k] = stmt
    IN  IF i = Len(Statements) THEN "done" ELSE Statements[i + 1]

\* A statement that returns: main goes on to the next one with the new table.
Proceed(stmt, t) ==
    /\ pc' = NextStatement(stmt)
    /\ df' = t
    /\ log' = Append(log, stmt)
    /\ UNCHANGED <<csv, run, failedAt, error, prev>>

\* A statement that raises: nothing in main catches, so the exception leaves
\* main and no later statement runs.
Propagate(stmt, e) ==
    /\ pc' = "failed"
    /\ failedAt' = stmt
    /\ error' = e
    /\ log' = Append(log, stmt)
    /\ UNCHANGED <<csv, run, df, returned, saved, derived, prev>>

Step(stmt, r) ==
    IF r.ok
    THEN Proceed(stmt, r.df) /\ UNCHANGED <<returned, saved, derived>>
    ELSE Propagate(stmt, r.error)

\* The input files: every field of a scraped row but the url may be empty
\* (the scraper writes '' for a title or body its selector misses), and the
\* file may hold a further column, extra: read_csv keeps every column of the
\* file and dropna() inspects every column of the table.  A file has at
\* least one row: what DataFrame.apply(axis=1) returns for a table without
\* rows differs from what it returns otherwise and is outside the model.
Urls == { <<"s", ":", "/", "/", "n", "/", "a", "-", "b">>,
          <<"s", ":", "/", "/", "n", "/", "a", "/">> }
Titles == { NaN, <<"B">> }
Bodies == { NaN, <<"a", "\n", "b">> }
Extras == { NaN, <<"s">> }
RawRows == [url : Urls, title : Titles, body : Bodies, extra : Extras]
Files == UNION { [1..n -> RawRows] : n \in 1..MaxRows }

NoOutcome == [pc |-> "", returned |-> <<>>, saved |-> <<>>, failedAt |-> "", error |-> ""]
Outcome == [pc |-> pc, returned |-> returned, saved |-> saved,
            failedAt |-> failedAt, error |-> error]

Init ==
    /\ csv \in Files
    /\ run = 1
    /\ pc = Statements[1]
    /\ df = EmptyTable
    /\ returned = <<>>
    /\ saved = <<>>
    /\ failedAt = ""
    /\ error = ""
    /\ log = <<>>
    /\ derived = EmptyTable
    /\ prev = NoOutcome

ReadData ==
    /\ pc = "_read_data"
    /\ Step("_read_data", Ok(_read_data(csv)))

AddNewspaperUidColumn ==
    /\ pc = "_add_newspaper_uid_column"
    /\ Step("_add_newspaper_uid_column",
            _add_newspaper_uid_column(df, _extract_newspaper_uid(Filename)))

ExtractHost ==
    /\ pc = "_extract_host"
    /\ Step("_extract_host", _extract_host(df))

FillMissingTitles ==
    /\ pc = "_fill_missing_titles"
    /\ Step("_fill_missing_titles", _fill_missing_titles(df))

GenerateUidsForRows ==
    /\ pc = "_generate_uids_for_rows"
    /\ Step("_generate_uids_for_rows", _generate_uids_for_rows(df))

RemoveNewLinesFromBody ==
    /\ pc = "_remove_new_lines_from_body"
    /\ Step("_remove_new_lines_from_body", _remove_new_lines_from_body(df))

TokenizeTitle ==
    /\ pc = "_tokenize_title"
    /\ Step("_tokenize_title", _tokenize_title(df))

TokenizeBody ==
    /\ pc = "_tokenize_body"
    /\ LET r == _tokenize_body(df)
       IN  IF r.ok
           THEN /\ Proceed("_tokenize_body", r.df)
                /\ derived' = r.df
                /\ UNCHANGED <<returned, saved>>
           ELSE Propagate("_tokenize_body", r.error)

RemoveDuplicateEntries ==
    /\ pc = "_remove_duplicate_entries"
    /\ Step("_remove_duplicate_entries", _remove_duplicate_entries(df, "title"))

DropRowsWithMissingValues ==
    /\ pc = "_drop_rows_with_missing_values"
    /\ Step("_drop_rows_with_missing_values", _drop_rows_with_missing_values(df))

\* df.to_csv('clean_<filename>')
SaveData ==
    /\ pc = "_save_data"
    /\ Proceed("_save_data", df)
    /\ saved' = <<df>>
    /\ UNCHANGED <<returned, derived>>

Return ==
    /\ pc = "return"
    /\ Proceed("return", df)
    /\ returned' = <<df>>
    /\ UNCHANGED <<saved, derived>>

\* main is invoked again on the same file; clean_<filename> stays on disk.
Rerun ==
    /\ pc \in {"done", "failed"}
    /\ run < MaxRuns
    /\ run' = run + 1
    /\ prev' = Outcome
    /\ pc' = Statements[1]
    /\ df' = EmptyTable
    /\ returned' = <<>>
    /\ failedAt' = ""
    /\ error' = ""
    /\ log' = <<>>
    /\ derived' = EmptyTable
    /\ UNCHANGED <<csv, saved>>

Next ==
    \/ ReadData
    \/ AddNewspaperUidColumn
    \/ ExtractHost
    \/ FillMissingTitles
    \/ GenerateUidsForRows
    \/ RemoveNewLinesFromBody
    \/ TokenizeTitle
    \/ TokenizeBody
    \/ RemoveDuplicateEntries
    \/ DropRowsWithMissingValues
    \/ SaveData
    \/ Return
    \/ Rerun

Spec == Init /\ [][Next]_vars

----------------------------------------------------------------------------
(* Properties.                                                             *)

Range(q) == {q[i] : i \in 1..Len(q)}
Entered(stmt) == stmt \in Range(log)
Output == returned[1]
\* The input rows (by position) that the table t still holds.
Positions(t) == {t.rows[i].pos : i \in 1..Len(t.rows)}

RequiredFields ==
    {"url", "title", "body", "host", "n_tokens_title", "n_tokens_body", "newspaper_uid"}

NineStages ==
    {"_add_newspaper_uid_column", "_extract_host", "_fill_missing_titles",
     "_generate_uids_for_rows", "_remove_new_lines_from_body", "_tokenize_title",
     "_tokenize_body", "_remove_duplicate_entries", "_drop_rows_with_missing_values"}

\* C1: when main completes, every required field is a column of the returned
\* table and no returned row has a missing value in any of them.
C1_Complete ==
    pc = "done" =>
        /\ RequiredFields \subseteq Output.columns
        /\ \A i \in 1..Len(Output.rows) : \A c \in RequiredFields : ~isna(Output.rows[i], c)

\* A completed run in which the final filter removed a row (first of its title,
\* so not a duplicate) that lacked a token count, and returned another.
C1_Witness ==
    /\ pc = "done"
    /\ Len(Output.rows) >= 1
    /\ \E i \in 1..Len(derived.rows) :
           /\ isna(derived.rows[i], "n_tokens_title")
           /\ \A j \in 1..(i - 1) : derived.rows[j].title # derived.rows[i].title
           /\ derived.rows[i].pos \notin Positions(Output)

\* C2 (as claimed): no two rows of the returned table carry the same uid.
C2_UniqueIds ==
    pc = "done" =>
        \A i, j \in 1..Len(Output.rows) : Output.rows[i].uid = Output.rows[j].uid => i = j

\* C3 (as claimed): a row with a missing body does not abort the run; body
\* normalization never raises.
C3_MissingBodyNoAbort ==
    (\E i \in 1..Len(csv) : csv[i].body = NaN) =>
        ~(pc = "failed" /\ failedAt = "_remove_new_lines_from_body")

\* The title the claim expects for an input row: its own when present, else the
\* url's text after the last '/', hyphens as spaces, empty when there is none.
C4_Expected(raw) ==
    IF raw.title # NaN THEN raw.title
    ELSE LET S == {i \in 1..Len(raw.url) : raw.url[i] = "/"}
             j == IF S = {} THEN 0 ELSE MaxOf(S)
         IN  [i \in 1..(Len(raw.url) - j) |->
                 IF raw.url[j + i] = "-" THEN " " ELSE raw.url[j + i]]

\* C4 (as claimed): title repair never fails the batch, and once it has run
\* every row's title is present and is the expected one.
C4_TitleRepair ==
    Entered("_fill_missing_titles") =>
        /\ failedAt # "_fill_missing_titles"
        /\ \A i \in 1..Len(df.rows) :
               /\ df.rows[i].title # NaN
               /\ df.rows[i].title = C4_Expected(csv[df.rows[i].pos])

\* C5: when main completes, no two rows of the returned table have the same
\* title.
C5_DistinctTitles ==
    pc = "done" =>
        \A i, j \in 1..Len(Output.rows) :
            Output.rows[i].title = Output.rows[j].title => i = j

\* A completed run that returned rows and in which two rows had the same title
\* after repair, one of them with a title filled from its url.
C5_Witness ==
    /\ pc = "done"
    /\ Len(Output.rows) >= 2
    /\ \E i, j \in 1..Len(derived.rows) :
           /\ i < j
           /\ derived.rows[i].title = derived.rows[j].title
           /\ csv[j].title = NaN

\* out is in's subsequence of the first row of each value of key.
FirstOccurrences(in, out, key) ==
    /\ \A k \in 1..Len(out) : \E i \in 1..Len(in) : in[i] = out[k]
    /\ \A k, l \in 1..Len(out) : k < l =>
           \E i, j \in 1..Len(in) : i < j /\ in[i] = out[k] /\ in[j] = out[l]
    /\ \A i \in 1..Len(in) :
           (\E k \in 1..Len(out) : out[k] = in[i])
             <=> (\A j \in 1..(i - 1) : in[j][key] # in[i][key])

\* C6: the step of _remove_duplicate_entries takes the table to the
\* subsequence of its rows that are the first of their title: later rows of a
\* title go, no first row goes, and the order is kept.
C6_FirstOccurrences ==
    [][(pc = "_remove_duplicate_entries" /\ pc' # pc)
          => FirstOccurrences(df.rows, df'.rows, "title")]_vars

\* Deduplication has just run on titles A, B, A and kept rows 1 and 2.
C6_Witness ==
    /\ Len(log) > 0
    /\ log[Len(log)] = "_remove_duplicate_entries"
    /\ Len(derived.rows) = 3
    /\ derived.rows[1].title = derived.rows[3].title
    /\ derived.rows[1].title # derived.rows[2].title
    /\ Len(df.rows) = 2
    /\ df.rows[1].pos = 1
    /\ df.rows[2].pos = 2

\* C7: a failed run has returned no table and written no file, and the file
\* is written only after all nine stages have run.
C7_NoOutputOnFailure ==
    /\ pc = "failed" => (returned = <<>> /\ saved = <<>>)
    /\ Entered("_save_data") => \A s \in NineStages : Entered(s)

\* A run that failed at the fifth stage with a partly processed batch in hand.
C7_Witness ==
    /\ pc = "failed"
    /\ failedAt = "_remove_new_lines_from_body"
    /\ Len(df.rows) >= 2
    /\ df.index = "uid"
    /\ "host" \in df.columns

C9_Order ==
    <<"_read_data", "_add_newspaper_uid_column", "_extract_host",
      "_fill_missing_titles", "_generate_uids_for_rows",
      "_remove_new_lines_from_body", "_tokenize_title", "_tokenize_body",
      "_remove_duplicate_entries", "_drop_rows_with_missing_values",
      "_save_data", "return">>

\* C9: the statements a run has entered are an initial part of the fixed
\* order (so each at most once, dedup after title repair and before the
\* completeness filter); the run is at the next one of the order, or done with
\* all of them, or failed at the last one it entered.
C9_FixedOrder ==
    /\ Len(log) <= Len(C9_Order)
    /\ \A i \in 1..Len(log) : log[i] = C9_Order[i]
    /\ pc = "done" => log = C9_Order
    /\ pc = "failed" => (Len(log) > 0 /\ log[Len(log)] = failedAt)
    /\ pc \notin {"done", "failed"} => pc = C9_Order[Len(log) + 1]

\* A second run that went through every statement, its last two stages each
\* removing a row.
C9_Witness ==
    /\ run = 2
    /\ pc = "done"
    /\ log = C9_Order
    /\ Len(Output.rows) = 1
    /\ Len(derived.rows) = 3
    /\ \E i \in 1..3 : HasMissing(derived, derived.rows[i])

====
